---- MODULE Spec2Model ----
(***************************************************************************)
(* Reading-history reconstruction pipeline of pycalista_ista:              *)
(*   Device.add_reading            (models/device.py, models/reading.py)   *)
(*   ExcelParser.get_devices_history                    (excel_parser.py)  *)
(*   VirtualApi.merge_device_histories                   (virtual_api.py)  *)
(*   VirtualApi._interpolate_and_trim_device_reading  (contract of §4.3)   *)
(*   VirtualApi.login, relogin, _get_readings_chunk      (virtual_api.py)  *)
(*   VirtualApi._get_readings, PyCalistaIsta.get_devices_history           *)
(*                                                                         *)
(* Conventions.  A reading value is None or an exact rational <<n, d>>     *)
(* with d > 0 in lowest terms (Python floats are abstracted to the reals). *)
(* A timestamp is the ordinal of a calendar date; only its order, its      *)
(* year, its month and its day are used.                                   *)
(***************************************************************************)
EXTENDS Integers, Sequences, FiniteSets, TLC

VARIABLES
    history,       \* Device.history of the device under test (SpecDevice)
    last_call,     \* the last add call on that device: its arguments and outcome
    consumption,   \* outcome of last_consumption read since the last add call
    sheet,         \* the export handed to ExcelParser (SpecParser)
    presult,       \* what ExcelParser.get_devices_history produced
    heap,          \* Device objects by identity (SpecMerge)
    heap_in,       \* those objects as they were when the merge was called
    device_lists,  \* argument of merge_device_histories: maps serial -> object
    merged_devices,\* the local merged_devices of merge_device_histories
    mpc,           \* position of merge_device_histories in its loops
    idevice,       \* argument of _interpolate_and_trim_device_reading
    odevice,       \* its result (SpecInterpolate)
    raw_headers,   \* argument of _normalize_headers (SpecHeaders)
    norm_headers,  \* its result
    cookies,       \* VirtualApi.cookies (SpecSession, SpecFetch)
    api_call,      \* the last login / relogin / _get_readings_chunk call
    today,         \* what date.today() returns now (SpecFetch)
    fetch          \* the _get_readings call: arguments, position, outcome

dvars == <<history, last_call, consumption>>
pvars == <<sheet, presult>>
mvars == <<heap, heap_in, device_lists, merged_devices, mpc>>
ivars == <<idevice, odevice>>
hvars == <<raw_headers, norm_headers>>
avars == <<cookies, api_call, today, fetch>>
vars == <<history, last_call, consumption, sheet, presult, heap, heap_in, device_lists,
          merged_devices, mpc, idevice, odevice, raw_headers, norm_headers,
          cookies, api_call, today, fetch>>

(***************************************************************************)
(* Bounds of the model.                                                    *)
(***************************************************************************)
MaxHist == 4      \* longest history built by add calls in SpecDevice
MaxDate == 3      \* timestamps 1..MaxDate in SpecDevice and SpecMerge

(***************************************************************************)
(* Python values.                                                          *)
(***************************************************************************)
None == <<>>

RECURSIVE GCD(_, _)
GCD(a, b) == IF b = 0 THEN a ELSE GCD(b, a % b)

Abs(n) == IF n < 0 THEN -n ELSE n

\* the rational n/d (d > 0) in lowest terms
Rat(n, d) == LET g == GCD(Abs(n), d) IN <<n \div g, d \div g>>

Num(n) == <<n, 1>>

RatLT(a, b) == a[1] * b[2] < b[1] * a[2]

RatAdd(a, b) == Rat(a[1] * b[2] + b[1] * a[2], a[2] * b[2])

RatSub(a, b) == Rat(a[1] * b[2] - b[1] * a[2], a[2] * b[2])

\* a * k / m for integers k >= 0, m > 0
RatScale(a, k, m) == Rat(a[1] * k, a[2] * m)

Range(s) == {s[i] : i \in 1..Len(s)}

InsertAt(s, i, e) == SubSeq(s, 1, i - 1) \o <<e>> \o SubSeq(s, i, Len(s))

IsSortedByDate(h) == \A i \in 1..Len(h) - 1 : h[i].date <= h[i + 1].date

(***************************************************************************)
(* models/reading.py, models/device.py                                     *)
(***************************************************************************)
\* Reading.__post_init__: `self.reading < 0`.  Comparing None with 0 raises
\* TypeError, a negative value raises ValueError.
ReadingInit(date, value) ==
    IF value = None THEN "TypeError"
    ELSE IF RatLT(value, Num(0)) THEN "ValueError"
    ELSE "ok"

\* bisect.insort(a, x, key=date) is insort_right: the binary search for the
\* first index whose date is greater than the new date.
RECURSIVE BisectRight(_, _, _, _)
BisectRight(h, date, lo, hi) ==
    IF lo < hi
    THEN LET mid == (lo + hi) \div 2
         IN IF date < h[mid + 1].date
            THEN BisectRight(h, date, lo, mid)
            ELSE BisectRight(h, date, mid + 1, hi)
    ELSE lo

\* mutant: the reading is appended whatever its date
Insort_append(h, r) == Append(h, r)

\* mutant: a reading with a timestamp already present replaces the old one
Insort_dedup(h, r) ==
    IF \E i \in 1..Len(h) : h[i].date = r.date
    THEN [i \in 1..Len(h) |-> IF h[i].date = r.date THEN r ELSE h[i]]
    ELSE InsertAt(h, BisectRight(h, r.date, 0, Len(h)) + 1, r)

\* Device.add_reading, lines 41-44, on a reading that passed the check of
\* line 38 (0-based insertion index lo becomes position lo + 1)
Insort(h, r) ==
    IF Len(h) = 0 THEN Append(h, r)
    ELSE InsertAt(h, BisectRight(h, r.date, 0, Len(h)) + 1, r)

\* mutant: a reading whose timestamp the history already holds is dropped
AddReading_skipKnownDate(h, r) ==
    IF r.reading = None THEN [status |-> "TypeError", history |-> h]
    ELSE IF RatLT(r.reading, Num(0)) THEN [status |-> "ValueError", history |-> h]
    ELSE IF \E i \in 1..Len(h) : h[i].date = r.date THEN [status |-> "ok", history |-> h]
    ELSE [status |-> "ok", history |-> Insort(h, r)]

\* Device.add_reading: [status, history]; a raise leaves the list as it was
AddReading(h, r) ==
    IF r.reading = None THEN [status |-> "TypeError", history |-> h]
    ELSE IF RatLT(r.reading, Num(0)) THEN [status |-> "ValueError", history |-> h]
    ELSE [status |-> "ok", history |-> Insort(h, r)]

\* mutant: the value is stored without the checks for a negative value
AddReadingValue_noCheck(h, value, date) ==
    IF value = None THEN [status |-> "TypeError", history |-> h]
    ELSE [status |-> "ok", history |-> Insort(h, [date |-> date, reading |-> value])]

\* Device.add_reading_value: the Reading is constructed first
AddReadingValue(h, value, date) ==
    IF ReadingInit(date, value) # "ok"
    THEN [status |-> ReadingInit(date, value), history |-> h]
    ELSE AddReading(h, [date |-> date, reading |-> value])

\* Reading.__sub__: the difference of the two values, a plain number; an
\* absent operand raises TypeError
ReadingSub(a, b) ==
    IF a.reading = None \/ b.reading = None
    THEN [status |-> "TypeError", value |-> None]
    ELSE [status |-> "ok", value |-> RatSub(a.reading, b.reading)]

\* Device.last_consumption: [status, result]; result is None or the Reading
\* built at line 65, whose constructor checks the difference
LastConsumption(h) ==
    IF Len(h) < 2 THEN [status |-> "ok", result |-> None]
    ELSE LET last_reading == h[Len(h)]
             previous_reading == h[Len(h) - 1]
             diff == ReadingSub(last_reading, previous_reading)
         IN IF diff.status # "ok" THEN [status |-> diff.status, result |-> None]
            ELSE IF ReadingInit(last_reading.date, diff.value) # "ok"
            THEN [status |-> ReadingInit(last_reading.date, diff.value),
                  result |-> None]
            ELSE [status |-> "ok",
                  result |-> [date |-> last_reading.date, reading |-> diff.value]]

(***************************************************************************)
(* SpecDevice: one Device, its add calls and reads of last_consumption.    *)
(***************************************************************************)
DeviceValues == {None, Num(-1), Num(0), Num(1), Rat(3, 2)}

\* Reading objects that exist: the constructor accepted them
ValidReadings ==
    {r \in [date : 1..MaxDate, reading : DeviceValues] :
        ReadingInit(r.date, r.reading) = "ok"}

ParserIdle == sheet = <<>> /\ presult = <<>>
MergeIdle == /\ heap = <<>> /\ heap_in = <<>> /\ device_lists = <<>>
             /\ merged_devices = <<>> /\ mpc = <<>>
InterpolateIdle == idevice = <<>> /\ odevice = <<>>
HeadersIdle == raw_headers = <<>> /\ norm_headers = <<>>
ApiIdle == cookies = <<>> /\ api_call = <<>> /\ today = <<>> /\ fetch = <<>>

InitDevice ==
    /\ history = <<>>
    /\ last_call = [status |-> "none", date |-> 0, value |-> None]
    /\ consumption = <<>>
    /\ ParserIdle /\ MergeIdle /\ InterpolateIdle /\ HeadersIdle /\ ApiIdle

DoAddReadingValue ==
    /\ Len(history) < MaxHist
    /\ \E value \in DeviceValues, date \in 1..MaxDate :
          LET res == AddReadingValue(history, value, date)
          IN /\ history' = res.history
             /\ last_call' = [status |-> res.status, date |-> date, value |-> value]
    /\ consumption' = <<>>
    /\ UNCHANGED <<pvars, mvars, ivars, hvars, avars>>

DoAddReading ==
    /\ Len(history) < MaxHist
    /\ \E r \in ValidReadings :
          LET res == AddReading(history, r)
          IN /\ history' = res.history
             /\ last_call' = [status |-> res.status, date |-> r.date,
                               value |-> r.reading]
    /\ consumption' = <<>>
    /\ UNCHANGED <<pvars, mvars, ivars, hvars, avars>>

\* the property last_consumption is read
DoLastConsumption ==
    /\ consumption = <<>>
    /\ consumption' = LastConsumption(history)
    /\ UNCHANGED <<history, last_call>>
    /\ UNCHANGED <<pvars, mvars, ivars, hvars, avars>>

NextDevice == DoAddReadingValue \/ DoAddReading \/ DoLastConsumption

SpecDevice == InitDevice /\ [][NextDevice]_vars

\* C1: after every add_reading / add_reading_value call, in any order of
\* timestamps (equal ones included), the history is sorted ascending by
\* timestamp.
C1_HistorySorted == IsSortedByDate(history)

\* the last call inserted a reading before a later one and next to one of its
\* own timestamp, in a history of MaxHist readings
C1_Witness ==
    /\ Len(history) = MaxHist
    /\ last_call.status = "ok"
    /\ last_call.date < history[Len(history)].date
    /\ Cardinality({i \in 1..Len(history) : history[i].date = last_call.date}) >= 2

IsNegative(value) == value # None /\ RatLT(value, Num(0))

\* C15: a negative value is never stored: a call with a negative value raises
\* ValueError and leaves the history as it was, and every present value of the
\* history is >= 0.
C15_NegativeNeverStored ==
    /\ [](\A i \in 1..Len(history) : ~IsNegative(history[i].reading))
    /\ [][IsNegative(last_call'.value) =>
             (last_call'.status = "ValueError" /\ history' = history)]_vars

\* a call with a negative value was refused on a device that holds readings
C15_Witness ==
    /\ IsNegative(last_call.value)
    /\ last_call.status = "ValueError"
    /\ Len(history) >= 2

\* C16: add_reading_value(None, date) succeeds and stores a reading of that
\* date whose value is absent.
C16_AbsentValueStored ==
    (last_call.status # "none" /\ last_call.value = None) =>
        /\ last_call.status = "ok"
        /\ \E i \in 1..Len(history) :
               history[i] = [date |-> last_call.date, reading |-> None]

\* C21: last_consumption is None when the history holds fewer than two
\* readings; with two or more it returns, without raising, a reading dated at
\* the latest reading whose value is the latest value minus the one before it.
C21_LastConsumption ==
    consumption # <<>> =>
        IF Len(history) < 2
        THEN consumption = [status |-> "ok", result |-> None]
        ELSE /\ consumption.status = "ok"
             /\ consumption.result =
                   [date |-> history[Len(history)].date,
                    reading |-> RatSub(history[Len(history)].reading,
                                       history[Len(history) - 1].reading)]

(***************************************************************************)
(* excel_parser.py                                                         *)
(*                                                                         *)
(* A cell of the sheet is blank (xlrd gives ''), a number or a text; a     *)
(* text is the tuple of its characters.  A date header is "dd/mm".  The    *)
(* type string of a row is modelled by the set of vendor type markers it   *)
(* contains (the code only tests `marker in device_type`).  A metadata     *)
(* column that is absent from the sheet reads as '' (row.get(key, "")),    *)
(* like a blank metadata cell.                                             *)
(*                                                                         *)
(* The input of a parser is io_file: no bytes at all, bytes that xlrd does *)
(* not open (open_workbook raises), or a workbook whose first sheet has a  *)
(* header row (the metadata columns it holds and its other headers, in     *)
(* order) and data rows.                                                   *)
(***************************************************************************)
MaxCols == 3      \* date columns of a sheet
MaxRows == 2      \* data rows of a sheet

Blank == [t |-> "blank", n |-> 0, s |-> <<>>]
PyNone == [t |-> "none", n |-> 0, s |-> <<>>]
NumCell(n) == [t |-> "num", n |-> n, s |-> <<>>]
StrCell(s) == [t |-> "str", n |-> 0, s |-> s]

\* Python truth value of a cell: '' , None and 0 are false
Truthy(c) ==
    CASE c.t = "blank" -> FALSE
      [] c.t = "none" -> FALSE
      [] c.t = "num" -> c.n # 0
      [] c.t = "str" -> Len(c.s) > 0

DigitVal == [c \in {"0", "1", "5", "7"} |->
                CASE c = "0" -> 0 [] c = "1" -> 1 [] c = "5" -> 5 [] c = "7" -> 7]

IsDigit(c) == c \in DOMAIN DigitVal

RECURSIVE DigitsValue(_)
DigitsValue(ds) ==
    IF Len(ds) = 0 THEN 0
    ELSE 10 * DigitsValue(SubSeq(ds, 1, Len(ds) - 1)) + DigitVal[ds[Len(ds)]]

RECURSIVE Pow10(_)
Pow10(k) == IF k = 0 THEN 1 ELSE 10 * Pow10(k - 1)

\* str.replace(",", ".")
ReplaceComma(s) == [i \in 1..Len(s) |-> IF s[i] = "," THEN "." ELSE s[i]]

\* float(text) for a text over digits, '.', '-' and letters: an optional sign,
\* digits with at most one point, at least one digit; anything else raises
\* ValueError
ParseFloat(s) ==
    LET neg == Len(s) > 0 /\ s[1] = "-"
        body == IF neg THEN Tail(s) ELSE s
        dots == {i \in 1..Len(body) : body[i] = "."}
        wellFormed == /\ Cardinality(dots) <= 1
                      /\ \A i \in 1..Len(body) : IsDigit(body[i]) \/ body[i] = "."
                      /\ \E i \in 1..Len(body) : IsDigit(body[i])
    IN IF ~wellFormed THEN [ok |-> FALSE, v |-> None]
       ELSE LET p == IF dots = {} THEN Len(body) + 1 ELSE CHOOSE i \in dots : TRUE
                int == SubSeq(body, 1, p - 1)
                frac == SubSeq(body, p + 1, Len(body))
                mag == Rat(DigitsValue(int \o frac), Pow10(Len(frac)))
            IN [ok |-> TRUE, v |-> IF neg THEN <<-mag[1], mag[2]>> ELSE mag]

\* line 259: float(str(reading).replace(",", ".")) if reading else 0.0
\* (str() of a number parses back to that number)
ReadingValue(c) ==
    IF ~Truthy(c) THEN [ok |-> TRUE, v |-> Num(0)]
    ELSE IF c.t = "num" THEN [ok |-> TRUE, v |-> Num(c.n)]
    ELSE ParseFloat(ReplaceComma(c.s))

\* _fill_missing_readings, the loop over reversed(headers) of one row, from
\* column i down to the first; prev is previous_reading_value.  The metadata
\* columns never set prev and a blank one is rewritten to '', so only the date
\* cells are carried.
RECURSIVE FillFrom(_, _, _)
FillFrom(cells, i, prev) ==
    IF i = 0 THEN cells
    ELSE IF ~Truthy(cells[i]) /\ Truthy(prev)
         THEN FillFrom([cells EXCEPT ![i] = prev], i - 1, prev)
         ELSE FillFrom(cells, i - 1, cells[i])

FillMissingReadings(cells) == FillFrom(cells, Len(cells), PyNone)

\* calendar
IsLeap(y) == (y % 4 = 0 /\ y % 100 # 0) \/ y % 400 = 0

DaysInMonth(y, m) ==
    IF m = 2 THEN (IF IsLeap(y) THEN 29 ELSE 28)
    ELSE IF m \in {4, 6, 9, 11} THEN 30 ELSE 31

ValidDate(y, m, d) == m \in 1..12 /\ d \in 1..DaysInMonth(y, m)

Ordinal(y, m, d) == (y * 12 + (m - 1)) * 31 + (d - 1)
YearOf(t) == t \div 372
MonthOf(t) == ((t \div 31) % 12) + 1
DayOf(t) == (t % 31) + 1

NoDate == -1

\* _parse_reading_date: strptime with the current year, then replace(year=...);
\* either raises ValueError on a date that does not exist
ParseReadingDate(h, last_processed_date, previous_year, in_previous_year, current_year) ==
    LET y == IF last_processed_date = NoDate THEN current_year
             ELSE IF in_previous_year THEN previous_year ELSE current_year
    IN IF ValidDate(current_year, h.month, h.day) /\ ValidDate(y, h.month, h.day)
       THEN [ok |-> TRUE, date |-> Ordinal(y, h.month, h.day)]
       ELSE [ok |-> FALSE, date |-> NoDate]

\* mutant: in_previous_year follows the last comparison instead of staying set
InPreviousYear_notSticky(in_previous_year, reading_date, last_processed_date) ==
    MonthOf(reading_date) >
        (IF last_processed_date # NoDate THEN MonthOf(last_processed_date) ELSE 0)

\* lines 254-255
InPreviousYear(in_previous_year, reading_date, last_processed_date) ==
    IF MonthOf(reading_date) >
          (IF last_processed_date # NoDate THEN MonthOf(last_processed_date) ELSE 0)
    THEN TRUE
    ELSE in_previous_year

\* _add_device_readings: the loop of lines 245-276 from column i on;
\* st = [history, last, inprev, dates] are device.history, last_processed_date,
\* in_previous_year and the reading_date of every iteration so far (NoDate
\* where _parse_reading_date raised).  Every exception of an iteration is
\* caught and logged.
RECURSIVE AddDeviceReadingsFrom(_, _, _, _, _)
AddDeviceReadingsFrom(st, headers, cells, year, i) ==
    IF i > Len(headers) THEN st
    ELSE LET pd == ParseReadingDate(headers[i], st.last, year - 1, st.inprev, year)
         IN IF ~pd.ok
            THEN AddDeviceReadingsFrom([st EXCEPT !.dates = Append(@, NoDate)],
                                       headers, cells, year, i + 1)
            ELSE LET val == ReadingValue(cells[i])
                     add == IF val.ok THEN AddReadingValue(st.history, val.v, pd.date)
                            ELSE [status |-> "ValueError", history |-> st.history]
                 IN AddDeviceReadingsFrom(
                        [history |-> add.history,
                         last |-> pd.date,
                         inprev |-> InPreviousYear(st.inprev, pd.date, st.last),
                         dates |-> Append(st.dates, pd.date)],
                        headers, cells, year, i + 1)

AddDeviceReadingsLoop(headers, cells, year) ==
    AddDeviceReadingsFrom([history |-> <<>>, last |-> NoDate, inprev |-> FALSE,
                           dates |-> <<>>],
                          headers, cells, year, 1)

AddDeviceReadings(headers, cells, year) ==
    AddDeviceReadingsLoop(headers, cells, year).history

\* mutant: an unknown type raises instead of giving None
CreateDevice_raise(device_type, serial_number, location) ==
    IF device_type \cap {"cold", "hot", "heating"} = {} \/ serial_number = ""
    THEN [status |-> "ValueError", device |-> <<>>]
    ELSE [status |-> "ok",
          device |-> [serial_number |-> serial_number, location |-> location,
                      variant |-> IF "cold" \in device_type THEN "ColdWaterDevice"
                                  ELSE IF "hot" \in device_type THEN "HotWaterDevice"
                                  ELSE "HeatingDevice",
                      history |-> <<>>]]

\* _create_device with the constructor it calls, Device(serial_number,
\* location): "None" for an unknown type, ValueError for an empty serial
\* number (Device.__init__), else a device of the variant with no reading
CreateDevice(device_type, serial_number, location) ==
    LET variant == IF "cold" \in device_type THEN "ColdWaterDevice"
                   ELSE IF "hot" \in device_type THEN "HotWaterDevice"
                   ELSE IF "heating" \in device_type THEN "HeatingDevice"
                   ELSE "None"
    IN IF variant = "None" THEN [status |-> "None", device |-> <<>>]
       ELSE IF serial_number = "" THEN [status |-> "ValueError", device |-> <<>>]
       ELSE [status |-> "ok",
             device |-> [serial_number |-> serial_number, location |-> location,
                         variant |-> variant, history |-> <<>>]]

\* line 29
METADATA_COLUMNS == {"tipo", "n_serie", "ubicacion"}

\* row.get(key, default) on a sheet whose header row has the metadata
\* columns `columns`
RowGet(row, columns, key, default) == IF key \in columns THEN row[key] ELSE default

\* _process_device_row on a row of the filled sheet; '' as a type string
\* contains no marker.  dates are the reading_date values of the row's loop.
ProcessDeviceRow(row, columns, headers, year) ==
    LET location == RowGet(row, columns, "ubicacion", "")
        serial_number == RowGet(row, columns, "n_serie", "")
        device_type == RowGet(row, columns, "tipo", {})
        c == CreateDevice(device_type, serial_number, location)
    IN IF c.status # "ok" THEN [status |-> c.status, device |-> <<>>, dates |-> <<>>]
       ELSE [status |-> "ok",
             device |-> [c.device EXCEPT
                           !.history = AddDeviceReadings(headers, row.cells, year)],
             dates |-> AddDeviceReadingsLoop(headers, row.cells, year).dates]

MapPut(m, k, v) == [x \in DOMAIN m \cup {k} |-> IF x = k THEN v ELSE m[x]]

\* line 174: devices[device.serial_number] = device
StoreDevice(devices, device) == MapPut(devices, device.serial_number, device)

\* get_devices_history, the loop of lines 171-174 from row i on; an exception
\* leaves through line 178 as ParserError.  acc = [devices, dates]: the map
\* built so far and, per row, the reading_date values of its loop.
RECURSIVE ProcessRowsFrom(_, _, _, _, _, _)
ProcessRowsFrom(acc, rows, columns, headers, year, i) ==
    IF i > Len(rows) THEN [status |-> "ok", devices |-> acc.devices, dates |-> acc.dates]
    ELSE LET p == ProcessDeviceRow(rows[i], columns, headers, year)
         IN IF p.status = "ValueError"
            THEN [status |-> "ParserError", devices |-> <<>>, dates |-> <<>>]
            ELSE IF p.status = "None"
                 THEN ProcessRowsFrom([acc EXCEPT !.dates = Append(@, <<>>)],
                                      rows, columns, headers, year, i + 1)
                 ELSE ProcessRowsFrom([devices |-> StoreDevice(acc.devices, p.device),
                                       dates |-> Append(acc.dates, p.dates)],
                                      rows, columns, headers, year, i + 1)

\* _process_sheet: every row goes through _fill_missing_readings
FilledRows(rows) ==
    [i \in 1..Len(rows) |-> [rows[i] EXCEPT !.cells = FillMissingReadings(rows[i].cells)]]

\* mutant: no check for an empty file, which then reads as a sheet without rows
GetRowsAsDict_emptyOk(sh) ==
    IF sh.kind = "unreadable" THEN [status |-> "ParserError", rows |-> <<>>]
    ELSE [status |-> "ok", rows |-> FilledRows(sh.rows)]

\* _get_rows_as_dict: no bytes raise ParserError (line 78), bytes that are no
\* workbook make open_workbook raise sh.error; both leave through the
\* handlers of lines 85-88 as ParserError
GetRowsAsDict(sh) ==
    LET raised == CASE sh.kind = "empty" -> "ParserError"
                    [] sh.kind = "unreadable" -> sh.error
                    [] OTHER -> "none"
    IN IF raised = "none" THEN [status |-> "ok", rows |-> FilledRows(sh.rows)]
       ELSE IF raised = "XLRDError" THEN [status |-> "ParserError", rows |-> <<>>]
       ELSE [status |-> "ParserError", rows |-> <<>>]

\* get_devices_history: [status, sensors, devices, dates]; whatever is raised
\* on the way leaves as ParserError (lines 178-179)
GetDevicesHistory(sh) ==
    LET g == GetRowsAsDict(sh)
        r == ProcessRowsFrom([devices |-> <<>>, dates |-> <<>>], g.rows,
                             sh.columns, sh.headers, sh.year, 1)
    IN IF g.status # "ok"
       THEN [status |-> "ParserError", sensors |-> <<>>, devices |-> <<>>, dates |-> <<>>]
       ELSE [status |-> r.status, sensors |-> g.rows, devices |-> r.devices,
             dates |-> r.dates]

(***************************************************************************)
(* SpecParser: one ExcelParser on one export.                              *)
(***************************************************************************)
Years == {2024}
\* a header that is neither a metadata column nor "dd/mm": strptime raises
OtherHeader == [day |-> 0, month |-> 0]
IsDateHeader(h) == h # OtherHeader
HeaderPool == {[day |-> 15, month |-> 1], [day |-> 1, month |-> 1],
               [day |-> 15, month |-> 12], OtherHeader}
\* the metadata columns of the header row: all of them, or one missing
ColumnSets == {METADATA_COLUMNS} \cup {METADATA_COLUMNS \ {c} : c \in METADATA_COLUMNS}
\* what open_workbook raises on bytes that are no workbook
OpenErrors == {"XLRDError", "Exception"}
CellPool == {Blank, NumCell(0), NumCell(5), NumCell(-1),
             StrCell(<<"x">>), StrCell(<<"1", ",", "5">>)}
TypePool == {{}, {"heating"}, {"cold"}, {"hot"}}
SerialPool == {"", "A", "B"}
LocationPool == {"L1", "L2"}

\* the headers of a sheet are the keys of a dict: distinct
HeaderSeqs(n) ==
    {h \in [1..n -> HeaderPool] : \A i, j \in 1..n : h[i] = h[j] => i = j}

\* the rows of a sheet with the metadata columns `columns` and n other
\* columns whose cells come from `pool`
RowSet(n, columns, pool) ==
    [tipo : IF "tipo" \in columns THEN TypePool ELSE {{}},
     n_serie : IF "n_serie" \in columns THEN SerialPool ELSE {""},
     ubicacion : IF "ubicacion" \in columns THEN LocationPool ELSE {""},
     cells : [1..n -> pool]]

Workbook(year, columns, headers, rows) ==
    [kind |-> "workbook", error |-> "none", year |-> year, columns |-> columns,
     headers |-> headers, rows |-> rows]

HeaderOrder == <<[day |-> 15, month |-> 1], [day |-> 1, month |-> 1],
                 [day |-> 15, month |-> 12], OtherHeader>>

\* an export that varies the headers: a sequence of distinct headers over one
\* row of a heating device
HeaderSheet(year, headers, cells) ==
    Workbook(year, METADATA_COLUMNS, headers,
             <<[tipo |-> {"heating"}, n_serie |-> "A", ubicacion |-> "L1",
                cells |-> cells]>>)

\* an export that varies the cells: one row under the first headers of
\* HeaderOrder
CellSheet(year, columns, row) ==
    Workbook(year, columns, SubSeq(HeaderOrder, 1, Len(row.cells)), <<row>>)

\* an export that varies the rows, under the one header 15/01
RowSheet(year, columns, rows) ==
    Workbook(year, columns, SubSeq(HeaderOrder, 1, 1), rows)

NoWorkbook(kind, error, year) ==
    [kind |-> kind, error |-> error, year |-> year, columns |-> {},
     headers |-> <<>>, rows |-> <<>>]

DeviceIdle == history = <<>> /\ last_call = <<>> /\ consumption = <<>>

InitParser ==
    /\ sheet = <<>>
    /\ presult = <<>>
    /\ DeviceIdle /\ MergeIdle /\ InterpolateIdle /\ HeadersIdle /\ ApiIdle

\* get_devices_history() of the parser built on the file sh
Parse(sh) ==
    /\ sheet' = sh
    /\ presult' = GetDevicesHistory(sh)

\* ExcelParser(io_file, current_year).get_devices_history() on a file without
\* bytes, on bytes that are no workbook, and on workbooks: every sequence of
\* up to MaxCols distinct headers over one row whose cells are 5 or blank;
\* one row of any metadata and any cells under up to MaxCols headers; up to
\* MaxRows rows of any metadata whose one cell is 5 or "1,5"
DoGetDevicesHistory ==
    /\ sheet = <<>>
    /\ \E year \in Years :
          \/ Parse(NoWorkbook("empty", "none", year))
          \/ \E e \in OpenErrors : Parse(NoWorkbook("unreadable", e, year))
          \/ \E n \in 0..MaxCols :
                \E h \in HeaderSeqs(n), c \in [1..n -> {NumCell(5), Blank}] :
                   Parse(HeaderSheet(year, h, c))
          \/ \E n \in {k \in 1..MaxCols : k <= Len(HeaderOrder)}, cols \in ColumnSets :
                \E row \in RowSet(n, cols, CellPool) :
                   Parse(CellSheet(year, cols, row))
          \/ \E r \in 0..MaxRows, cols \in ColumnSets :
                \E rows \in [1..r -> RowSet(1, cols, {NumCell(5), StrCell(<<"1", ",", "5">>)})] :
                   Parse(RowSheet(year, cols, rows))
    /\ UNCHANGED <<dvars, mvars, ivars, hvars, avars>>

NextParser == DoGetDevicesHistory

SpecParser == InitParser /\ [][NextParser]_vars

Parsed == sheet # <<>> /\ presult.status = "ok"

\* rows of the sheet that make a device, and the last of them for a serial
KnownType(row) == CreateDevice(row.tipo, "x", row.ubicacion).status = "ok"

RowsOf(serial) ==
    {i \in 1..Len(sheet.rows) :
        sheet.rows[i].n_serie = serial /\ KnownType(sheet.rows[i])}

LastRowOf(serial) == CHOOSE i \in RowsOf(serial) : \A j \in RowsOf(serial) : j <= i

\* the readings of a history that stand on the day and month of header h
ReadingsAt(h, hd) ==
    {k \in 1..Len(h) : DayOf(h[k].date) = hd.day /\ MonthOf(h[k].date) = hd.month}

\* the year C2 gives to the i-th date header
ExpectedYear(headers, i, year) ==
    IF \E j \in 2..i : headers[j].month > headers[j - 1].month
    THEN year - 1
    ELSE year

\* C2: the first date header gets the reference year Y; a later header gets Y
\* as long as no header up to it has a month greater than the month of the
\* header just before it; from the first such header on, Y - 1.  (Sheets
\* whose headers are all dates.)
C2_YearAssignment ==
    (Parsed /\ \A i \in 1..Len(sheet.headers) : IsDateHeader(sheet.headers[i])) =>
        \A serial \in DOMAIN presult.devices :
            \A i \in 1..Len(sheet.headers) :
                \A k \in ReadingsAt(presult.devices[serial].history, sheet.headers[i]) :
                    YearOf(presult.devices[serial].history[k].date)
                        = ExpectedYear(sheet.headers, i, sheet.year)

\* C3: after the backfill, every blank date cell that has a non-blank cell at
\* a more recent date (an earlier column of the export) holds the value of the
\* nearest such cell.
C3_BackfillFromNewer ==
    sheet # <<>> =>
        \A r \in 1..Len(sheet.rows) :
            \A i \in 1..Len(sheet.headers) :
                LET cells == sheet.rows[r].cells
                    newer == {j \in 1..(i - 1) : cells[j] # Blank}
                IN (cells[i] = Blank /\ newer # {}) =>
                      presult.sensors[r].cells[i]
                          = cells[CHOOSE j \in newer : \A m \in newer : m <= j]

\* a cell that C4 calls missing: blank, or a text that is no number
Unparseable(c) == c.t = "blank" \/ (c.t = "str" /\ ~ParseFloat(ReplaceComma(c.s)).ok)

\* C4: a date cell that is blank after the backfill, or not parseable as a
\* number, gives a reading of that date whose value is missing: never a
\* reading of value 0, never no reading.
C4_MissingRecorded ==
    Parsed =>
        \A serial \in DOMAIN presult.devices :
            \A i \in 1..Len(sheet.headers) :
                LET h == presult.devices[serial].history
                    at == ReadingsAt(h, sheet.headers[i])
                IN (/\ IsDateHeader(sheet.headers[i])
                    /\ Unparseable(presult.sensors[LastRowOf(serial)].cells[i])) =>
                      /\ at # {}
                      /\ \A k \in at : h[k].reading = None

RECURSIVE SumLen(_, _)
SumLen(f, S) ==
    IF S = {} THEN 0
    ELSE LET x == CHOOSE y \in S : TRUE IN Len(f[x]) + SumLen(f, S \ {x})

\* C10: when several rows carry one serial, the device returned for it has the
\* type and location of the last such row and the readings of all of them.
C10_AllRowsKept ==
    Parsed =>
        \A serial \in SerialPool :
            RowsOf(serial) # {} =>
                LET rowHistory == [i \in RowsOf(serial) |->
                                     AddDeviceReadings(sheet.headers,
                                                       presult.sensors[i].cells,
                                                       sheet.year)]
                    last == presult.sensors[LastRowOf(serial)]
                IN /\ serial \in DOMAIN presult.devices
                   /\ presult.devices[serial].location = last.ubicacion
                   /\ presult.devices[serial].variant
                         = CreateDevice(last.tipo, serial, last.ubicacion).device.variant
                   /\ Len(presult.devices[serial].history) = SumLen(rowHistory, RowsOf(serial))
                   /\ \A i \in RowsOf(serial) :
                         Range(rowHistory[i]) \subseteq Range(presult.devices[serial].history)

\* C11: an export whose header row lacks one of the metadata columns tipo,
\* n_serie, ubicacion makes get_devices_history fail with ParserError, whatever
\* its data rows; no device map is returned.
C11_MissingColumnsFail ==
    (sheet # <<>> /\ sheet.kind = "workbook" /\ sheet.columns # METADATA_COLUMNS) =>
        presult.status = "ParserError"

\* C12: a header that is neither a metadata column nor a day/month fragment
\* makes the parse fail with ParserError; the column is not skipped.
C12_UnknownHeaderFails ==
    (/\ sheet # <<>>
     /\ sheet.kind = "workbook"
     /\ \E i \in 1..Len(sheet.headers) : ~IsDateHeader(sheet.headers[i])) =>
        presult.status = "ParserError"

\* the sheet without its r-th data row
WithoutRow(sh, r) ==
    [sh EXCEPT !.rows = SubSeq(sh.rows, 1, r - 1) \o SubSeq(sh.rows, r + 1, Len(sh.rows))]

\* C13: a data row whose type holds no known marker is skipped without raising:
\* wherever it stands, the parse gives what it gives for the sheet without that
\* row, and the row itself adds no entry to the map.
C13_UnknownTypeSkipped ==
    (sheet # <<>> /\ sheet.kind = "workbook") =>
        \A r \in 1..Len(sheet.rows) :
            ~KnownType(sheet.rows[r]) =>
                LET rest == GetDevicesHistory(WithoutRow(sheet, r))
                IN /\ presult.status = rest.status
                   /\ presult.devices = rest.devices
                   /\ presult.status = "ok" =>
                         \A serial \in DOMAIN presult.devices : RowsOf(serial) # {}

\* an unknown-type row stands after a row that makes a device, under another
\* serial, and the map holds the device of the other row only
C13_Witness ==
    /\ Parsed
    /\ Len(sheet.rows) = 2
    /\ KnownType(sheet.rows[1]) /\ ~KnownType(sheet.rows[2])
    /\ sheet.rows[1].n_serie = "A" /\ sheet.rows[2].n_serie = "B"
    /\ DOMAIN presult.devices = {"A"}
    /\ Len(presult.devices["A"].history) = 1

\* C14: on a file without bytes and on bytes that are no workbook,
\* get_devices_history fails with ParserError, with no other exception, and
\* returns no device map.
C14_UnreadableFails ==
    (sheet # <<>> /\ sheet.kind \in {"empty", "unreadable"}) =>
        presult.status = "ParserError" /\ presult.devices = <<>>

\* the file had no bytes, and the call failed with ParserError
C14_Witness ==
    /\ sheet # <<>>
    /\ sheet.kind = "empty"
    /\ presult.status = "ParserError"

\* C17: along the headers of a row the years assigned never go up: no header
\* gets a later year than a header before it, and after a header dated Y - 1
\* every header is dated Y - 1.
C17_YearsNonIncreasing ==
    Parsed =>
        \A r \in 1..Len(presult.dates) :
            LET d == presult.dates[r]
            IN \A i, j \in 1..Len(d) :
                  (i < j /\ d[i] # NoDate /\ d[j] # NoDate) =>
                      /\ YearOf(d[j]) <= YearOf(d[i])
                      /\ YearOf(d[i]) = sheet.year - 1 => YearOf(d[j]) = sheet.year - 1

\* headers 15/12, 15/01, 01/01: the month goes down after the year was left,
\* and the dates are Y, Y - 1, Y - 1
C17_Witness ==
    /\ Parsed
    /\ Len(sheet.headers) = 3
    /\ sheet.headers[1].month = 12 /\ sheet.headers[2] = [day |-> 15, month |-> 1]
    /\ sheet.headers[3] = [day |-> 1, month |-> 1]
    /\ Len(presult.dates) = 1
    /\ presult.dates[1] = <<Ordinal(sheet.year, 12, 15), Ordinal(sheet.year - 1, 1, 15),
                            Ordinal(sheet.year - 1, 1, 1)>>

\* C26: a date cell that holds the number 0 is a reading, not a missing
\* value: the backfill leaves it 0 whatever the neighbouring cells hold, and
\* the device of the row has a reading of value 0 on that date.
C26_ZeroIsAReading ==
    Parsed =>
        \A r \in 1..Len(sheet.rows) :
            \A i \in 1..Len(sheet.headers) :
                (sheet.rows[r].cells[i] = NumCell(0) /\ IsDateHeader(sheet.headers[i])) =>
                    /\ presult.sensors[r].cells[i] = NumCell(0)
                    /\ \A serial \in DOMAIN presult.devices :
                          (RowsOf(serial) # {} /\ LastRowOf(serial) = r) =>
                              \E k \in ReadingsAt(presult.devices[serial].history,
                                                  sheet.headers[i]) :
                                  presult.devices[serial].history[k].reading = Num(0)

(***************************************************************************)
(* virtual_api.py: merge_device_histories                                  *)
(*                                                                         *)
(* A device map is the sequence of its items [serial, id] in dict order;   *)
(* id names a Device object of the heap.  merged_devices maps a serial to  *)
(* the id of the object kept for it.  mpc = [pc, li, ii, ri]: the position *)
(* in device_lists, in the items of that map and in device.history.        *)
(***************************************************************************)
MaxMaps == 2      \* device maps in device_lists
MaxMerged == 6    \* cap on the length of a history that merge grows

ItemAt(li, ii) == device_lists[li][ii]

\* mutant: a later occurrence of a serial replaces the device kept
Adopt_lastWins(merged, item) == MapPut(merged, item.serial, item.id)

\* lines 209-210: the first device seen for a serial is kept
Adopt(merged, item) ==
    IF item.serial \notin DOMAIN merged THEN MapPut(merged, item.serial, item.id)
    ELSE merged

\* line 207: the next map of device_lists
MergeNextList ==
    /\ mpc.pc = "items"
    /\ mpc.li <= Len(device_lists)
    /\ mpc.ii > Len(device_lists[mpc.li])
    /\ mpc' = [mpc EXCEPT !.li = mpc.li + 1, !.ii = 1]
    /\ UNCHANGED <<heap, heap_in, device_lists, merged_devices>>
    /\ UNCHANGED <<dvars, pvars, ivars, hvars, avars>>

\* lines 208-210: an item whose serial is not in merged_devices
MergeAdopt ==
    /\ mpc.pc = "items"
    /\ mpc.li <= Len(device_lists)
    /\ mpc.ii <= Len(device_lists[mpc.li])
    /\ ItemAt(mpc.li, mpc.ii).serial \notin DOMAIN merged_devices
    /\ merged_devices' = Adopt(merged_devices, ItemAt(mpc.li, mpc.ii))
    /\ mpc' = [mpc EXCEPT !.ii = mpc.ii + 1]
    /\ UNCHANGED <<heap, heap_in, device_lists>>
    /\ UNCHANGED <<dvars, pvars, ivars, hvars, avars>>

\* lines 211-213: an item whose serial is known; the loop over its history
\* starts
MergeEnterHistory ==
    /\ mpc.pc = "items"
    /\ mpc.li <= Len(device_lists)
    /\ mpc.ii <= Len(device_lists[mpc.li])
    /\ ItemAt(mpc.li, mpc.ii).serial \in DOMAIN merged_devices
    /\ merged_devices' = Adopt(merged_devices, ItemAt(mpc.li, mpc.ii))
    /\ mpc' = [mpc EXCEPT !.pc = "readings", !.ri = 1]
    /\ UNCHANGED <<heap, heap_in, device_lists>>
    /\ UNCHANGED <<dvars, pvars, ivars, hvars, avars>>

\* lines 213-214: one iteration; the list iterator reads device.history as
\* it is now
MergeAppendReading ==
    /\ mpc.pc = "readings"
    /\ LET item == ItemAt(mpc.li, mpc.ii)
           existing == merged_devices[item.serial]
       IN /\ mpc.ri <= Len(heap[item.id].history)
          /\ Len(heap[existing].history) < MaxMerged
          /\ heap' = [heap EXCEPT ![existing].history =
                         AddReading(heap[existing].history,
                                    heap[item.id].history[mpc.ri]).history]
    /\ mpc' = [mpc EXCEPT !.ri = mpc.ri + 1]
    /\ UNCHANGED <<heap_in, device_lists, merged_devices>>
    /\ UNCHANGED <<dvars, pvars, ivars, hvars, avars>>

\* line 213: the iterator is exhausted
MergeHistoryEnd ==
    /\ mpc.pc = "readings"
    /\ mpc.ri > Len(heap[ItemAt(mpc.li, mpc.ii).id].history)
    /\ mpc' = [mpc EXCEPT !.pc = "items", !.ii = mpc.ii + 1, !.ri = 0]
    /\ UNCHANGED <<heap, heap_in, device_lists, merged_devices>>
    /\ UNCHANGED <<dvars, pvars, ivars, hvars, avars>>

\* line 216
MergeReturn ==
    /\ mpc.pc = "items"
    /\ mpc.li > Len(device_lists)
    /\ mpc' = [mpc EXCEPT !.pc = "done"]
    /\ UNCHANGED <<heap, heap_in, device_lists, merged_devices>>
    /\ UNCHANGED <<dvars, pvars, ivars, hvars, avars>>

(***************************************************************************)
(* SpecMerge: one call of merge_device_histories.  The maps hold serial A  *)
(* with any device of the pool and serial B with one fixed device, each    *)
(* occurrence an object of its own; or the same map is listed twice.       *)
(***************************************************************************)
MergeReadings == {[date |-> 1, reading |-> Num(1)], [date |-> 1, reading |-> Num(2)],
                  [date |-> 2, reading |-> Num(1)]}
HistoryLengths == 0..2

\* histories as Device keeps them: sorted
MergeHistories ==
    {h \in UNION {[1..n -> MergeReadings] : n \in HistoryLengths} : IsSortedByDate(h)}

Identities == {[location |-> "L1", variant |-> "HeatingDevice"],
               [location |-> "L2", variant |-> "ColdWaterDevice"]}

DevicesA ==
    {[serial_number |-> "A", location |-> x.location, variant |-> x.variant,
      history |-> h] : x \in Identities, h \in MergeHistories}

DeviceB == [serial_number |-> "B", location |-> "L1", variant |-> "HotWaterDevice",
            history |-> <<[date |-> 1, reading |-> Num(1)]>>]

\* what one map holds: for each serial, a device or nothing
NoDevice == <<>>
MapContents == [A : DevicesA \cup {NoDevice}, B : {DeviceB, NoDevice}]

\* the items of the li-th map, A before B; the object of serial s in map li
\* is <<li, s>>
ItemsOf(li, c) ==
    (IF c.A = NoDevice THEN <<>> ELSE <<[serial |-> "A", id |-> <<li, "A">>]>>)
    \o (IF c.B = NoDevice THEN <<>> ELSE <<[serial |-> "B", id |-> <<li, "B">>]>>)

HeapOf(cs) ==
    [id \in {<<li, s>> : li \in 1..Len(cs), s \in {"A", "B"}}
            \cap {<<li, s>> \in (1..Len(cs)) \X {"A", "B"} : cs[li][s] # NoDevice}
        |-> cs[id[1]][id[2]]]

InitMerge ==
    /\ \E n \in 1..MaxMaps : \E cs \in [1..n -> MapContents] :
          /\ heap = HeapOf(cs)
          /\ \/ device_lists = [li \in 1..n |-> ItemsOf(li, cs[li])]
             \/ /\ n = 1
                /\ device_lists = <<ItemsOf(1, cs[1]), ItemsOf(1, cs[1])>>
    /\ heap_in = heap
    /\ merged_devices = <<>>
    /\ mpc = [pc |-> "items", li |-> 1, ii |-> 1, ri |-> 0]
    /\ DeviceIdle /\ ParserIdle /\ InterpolateIdle /\ HeadersIdle /\ ApiIdle

NextMerge ==
    \/ MergeNextList
    \/ MergeAdopt
    \/ MergeEnterHistory
    \/ MergeAppendReading
    \/ MergeHistoryEnd
    \/ MergeReturn

SpecMerge == InitMerge /\ [][NextMerge]_vars

\* the places <<li, ii>> of device_lists where a serial occurs
Occurrences(serial) ==
    {x \in (1..Len(device_lists)) \X (1..2) :
        /\ x[2] <= Len(device_lists[x[1]])
        /\ ItemAt(x[1], x[2]).serial = serial}

AllOccurrences == Occurrences("A") \cup Occurrences("B")

\* no Device object stands at two places of device_lists
DistinctObjects ==
    \A x, y \in AllOccurrences : ItemAt(x[1], x[2]).id = ItemAt(y[1], y[2]).id => x = y

\* how often a reading stands in a history
Count(r, h) == Cardinality({k \in 1..Len(h) : h[k] = r})

RECURSIVE CountIn(_, _)
CountIn(r, occ) ==
    IF occ = {} THEN 0
    ELSE LET x == CHOOSE y \in occ : TRUE
         IN Count(r, heap_in[ItemAt(x[1], x[2]).id].history) + CountIn(r, occ \ {x})

RECURSIVE LenIn(_)
LenIn(occ) ==
    IF occ = {} THEN 0
    ELSE LET x == CHOOSE y \in occ : TRUE
         IN Len(heap_in[ItemAt(x[1], x[2]).id].history) + LenIn(occ \ {x})

MergeDone == mpc # <<>> /\ mpc.pc = "done"

MergedHistory(serial) == heap[merged_devices[serial]].history

\* C5: with distinct Device objects the merge loses and invents no reading:
\* the merged history of a serial holds every reading of that serial's
\* histories in all the maps as often as they hold it together, equal
\* timestamps kept, so its length is the sum of theirs; a list of one map
\* gives the same serials and the same histories.
C5_MergeKeepsAllReadings ==
    (MergeDone /\ DistinctObjects) =>
        /\ \A serial \in {"A", "B"} :
              /\ serial \in DOMAIN merged_devices <=> Occurrences(serial) # {}
              /\ serial \in DOMAIN merged_devices =>
                    /\ Len(MergedHistory(serial)) = LenIn(Occurrences(serial))
                    /\ \A r \in MergeReadings \cup Range(MergedHistory(serial)) :
                          Count(r, MergedHistory(serial)) = CountIn(r, Occurrences(serial))
        /\ Len(device_lists) = 1 =>
              \A ii \in 1..Len(device_lists[1]) :
                  MergedHistory(ItemAt(1, ii).serial) = heap_in[ItemAt(1, ii).id].history

\* serial A came in two maps, both histories holding a reading of the same
\* timestamp, and all four readings are in the merged history
C5_Witness ==
    /\ MergeDone /\ DistinctObjects
    /\ Cardinality(Occurrences("A")) = 2
    /\ \A x \in Occurrences("A") : Len(heap_in[ItemAt(x[1], x[2]).id].history) = 2
    /\ Len(MergedHistory("A")) = 4
    /\ \E k \in 1..3 : /\ MergedHistory("A")[k].date = MergedHistory("A")[k + 1].date
                       /\ MergedHistory("A")[k].reading # MergedHistory("A")[k + 1].reading

\* the object of the first map, in list order, that holds the serial
FirstId(serial) ==
    LET first == CHOOSE x \in Occurrences(serial) :
                    \A y \in Occurrences(serial) : x[1] <= y[1]
    IN ItemAt(first[1], first[2]).id

\* C6: the Device kept for a serial is the one of the first map that holds
\* the serial; its serial number, location and variant stay as they were,
\* whatever the later maps hold; only histories grow.
C6_FirstSeenIdentityKept ==
    mpc # <<>> =>
        /\ \A serial \in DOMAIN merged_devices :
              merged_devices[serial] = FirstId(serial)
        /\ \A id \in DOMAIN heap :
              /\ heap[id].serial_number = heap_in[id].serial_number
              /\ heap[id].location = heap_in[id].location
              /\ heap[id].variant = heap_in[id].variant
              /\ Len(heap[id].history) >= Len(heap_in[id].history)
        /\ MergeDone =>
              \A serial \in {"A", "B"} :
                  Occurrences(serial) # {} => serial \in DOMAIN merged_devices

\* serials A and B come in both maps, A with different locations and
\* variants; the device of the first map is kept and its history has grown
C6_Witness ==
    /\ MergeDone /\ DistinctObjects
    /\ Len(device_lists) = 2
    /\ Cardinality(Occurrences("A")) = 2
    /\ Cardinality(Occurrences("B")) = 2
    /\ heap[<<1, "A">>].location # heap[<<2, "A">>].location
    /\ heap[<<1, "A">>].variant # heap[<<2, "A">>].variant
    /\ merged_devices["A"] = <<1, "A">>
    /\ Len(heap[<<1, "A">>].history) > Len(heap_in[<<1, "A">>].history)

\* lines 213-214 for a device that is not existing_device: its readings, in
\* list order, are added to the history h
RECURSIVE AddReadingsFrom(_, _, _)
AddReadingsFrom(h, src, i) ==
    IF i > Len(src) THEN h
    ELSE AddReadingsFrom(AddReading(h, src[i]).history, src, i + 1)

\* lines 209-214 on one item; st = [merged, heap]
MergeItem(st, item) ==
    IF item.serial \notin DOMAIN st.merged
    THEN [st EXCEPT !.merged = Adopt(st.merged, item)]
    ELSE [st EXCEPT !.heap[st.merged[item.serial]].history =
                        AddReadingsFrom(@, st.heap[item.id].history, 1)]

\* lines 207-208: the loops over the maps and their items
RECURSIVE MergeFrom(_, _, _, _)
MergeFrom(st, lists, li, ii) ==
    IF li > Len(lists) THEN st
    ELSE IF ii > Len(lists[li]) THEN MergeFrom(st, lists, li + 1, 1)
    ELSE MergeFrom(MergeItem(st, lists[li][ii]), lists, li, ii + 1)

\* merge_device_histories(lists) on the objects of hp, for maps of distinct
\* objects: what it returns and the objects as it leaves them
MergeDeviceHistories(lists, hp) ==
    MergeFrom([merged |-> <<>>, heap |-> hp], lists, 1, 1)

\* the orderings of a list of n maps
Orderings(n) == {p \in [1..n -> 1..n] : \A i, j \in 1..n : p[i] = p[j] => i = j}

Reordered(lists, p) == [i \in 1..Len(lists) |-> lists[p[i]]]

Dates(h) == [i \in 1..Len(h) |-> h[i].date]

\* C25: the merge result depends on time, not on fetch order: for every
\* ordering of the same list of device maps (distinct objects, taken as they
\* were handed in), the merge gives the same serials and, for every serial, a
\* history sorted ascending by timestamp with the same sequence of timestamps
\* and the same multiset of readings.
C25_OrderIndependent ==
    (MergeDone /\ DistinctObjects) =>
        \A p \in Orderings(Len(device_lists)) :
            LET other == MergeDeviceHistories(Reordered(device_lists, p), heap_in)
            IN /\ DOMAIN other.merged = DOMAIN merged_devices
               /\ \A serial \in DOMAIN merged_devices :
                     LET h1 == MergedHistory(serial)
                         h2 == other.heap[other.merged[serial]].history
                     IN /\ IsSortedByDate(h1)
                        /\ IsSortedByDate(h2)
                        /\ Dates(h1) = Dates(h2)
                        /\ \A r \in Range(h1) \cup Range(h2) :
                              Count(r, h1) = Count(r, h2)

\* two maps hold serial A with different histories, the first map's readings
\* not all older than the second's, and with readings of one timestamp and
\* different values on the two sides
C25_Witness ==
    /\ MergeDone /\ DistinctObjects
    /\ Len(device_lists) = 2
    /\ Cardinality(Occurrences("A")) = 2
    /\ heap_in[<<1, "A">>].history # heap_in[<<2, "A">>].history
    /\ Len(heap_in[<<1, "A">>].history) = 2
    /\ Len(heap_in[<<2, "A">>].history) = 2
    /\ heap_in[<<1, "A">>].history[2].date > heap_in[<<2, "A">>].history[1].date
    /\ \E i, j \in 1..2 :
          /\ heap_in[<<1, "A">>].history[i].date = heap_in[<<2, "A">>].history[j].date
          /\ heap_in[<<1, "A">>].history[i].reading # heap_in[<<2, "A">>].history[j].reading
    /\ Len(MergedHistory("A")) = 4

\* merge_device_histories is sequential code: it takes its next step as long
\* as it has one
SpecMergeFair == SpecMerge /\ WF_vars(NextMerge)

\* the readings the iterator of line 213 has not yet reached
IterationsLeft ==
    IF mpc.pc = "readings"
    THEN Len(heap[ItemAt(mpc.li, mpc.ii).id].history) - mpc.ri + 1
    ELSE 0

\* C28: merge_device_histories terminates for every finite list of device
\* maps with finite histories, also when the same Device object stands under
\* the same serial in more than one map: the call reaches its return, every
\* iteration of the loop over device.history leaving one reading fewer to
\* iterate.
C28_MergeTerminates ==
    /\ <>MergeDone
    /\ [][(mpc.pc = "readings" /\ mpc'.pc = "readings") =>
             IterationsLeft' < IterationsLeft]_vars

(***************************************************************************)
(* _interpolate_and_trim_device_reading, from its contract: the history is *)
(* sorted by timestamp, the leading and trailing missing readings are      *)
(* dropped, every interior missing reading is filled from the present      *)
(* readings that bound its run, and a new Device of the same identity      *)
(* carries the result.                                                     *)
(***************************************************************************)
MaxLen == 4       \* readings of the history handed to the interpolation

NoLocation == "None"   \* location = None

\* stable insertion sort by timestamp
RECURSIVE SortByDate(_)
SortByDate(h) ==
    IF Len(h) = 0 THEN <<>>
    ELSE LET rest == SortByDate(SubSeq(h, 1, Len(h) - 1))
             r == h[Len(h)]
             before == {i \in 1..Len(rest) : rest[i].date <= r.date}
             pos == IF before = {} THEN 1
                    ELSE (CHOOSE i \in before : \A j \in before : j <= i) + 1
         IN InsertAt(rest, pos, r)

ValidAt(h) == {i \in 1..Len(h) : h[i].reading # None}

\* the value of the k-th of n missing readings between v_start and v_end
\* mutant: linear also when the meter went down
GapValue_noReset(v_start, v_end, k, n) ==
    IF v_end = v_start THEN v_start
    ELSE RatAdd(v_start, RatScale(RatSub(v_end, v_start), k, n + 1))

\* mutant: the result rounded to two decimals
GapValue_round2(v_start, v_end, k, n) ==
    IF v_end = v_start THEN v_start
    ELSE IF RatLT(v_end, v_start) THEN Num(0)
    ELSE LET x == RatAdd(v_start, RatScale(RatSub(v_end, v_start), k, n + 1))
         IN Rat((2 * x[1] * 100 + x[2]) \div (2 * x[2]), 100)

GapValue(v_start, v_end, k, n) ==
    IF v_end = v_start THEN v_start
    ELSE IF RatLT(v_end, v_start) THEN Num(0)
    ELSE RatAdd(v_start, RatScale(RatSub(v_end, v_start), k, n + 1))

\* the reading at position i of a sorted history, between the first and the
\* last present reading
Filled(h, i) ==
    IF h[i].reading # None THEN h[i]
    ELSE LET a == CHOOSE x \in ValidAt(h) : x < i /\ \A y \in ValidAt(h) : y < i => y <= x
             b == CHOOSE x \in ValidAt(h) : x > i /\ \A y \in ValidAt(h) : y > i => x <= y
         IN [date |-> h[i].date,
             reading |-> GapValue(h[a].reading, h[b].reading, i - a, b - a - 1)]

\* mutant: nothing is trimmed, a reading outside the present ones stays missing
TrimAndFill_noTrim(h) ==
    [i \in 1..Len(h) |->
        IF \E a, b \in ValidAt(h) : a <= i /\ i <= b THEN Filled(h, i) ELSE h[i]]

\* mutant: the trim also takes the first present reading away
TrimAndFill_trimFirst(h) ==
    IF ValidAt(h) = {} THEN <<>>
    ELSE LET first == CHOOSE x \in ValidAt(h) : \A y \in ValidAt(h) : x <= y
             last == CHOOSE x \in ValidAt(h) : \A y \in ValidAt(h) : y <= x
         IN [j \in 1..(last - first) |-> Filled(h, first + j)]

\* trim and fill of a sorted history
TrimAndFill(h) ==
    IF ValidAt(h) = {} THEN <<>>
    ELSE LET first == CHOOSE x \in ValidAt(h) : \A y \in ValidAt(h) : x <= y
             last == CHOOSE x \in ValidAt(h) : \A y \in ValidAt(h) : y <= x
         IN [j \in 1..(last - first + 1) |-> Filled(h, first + j - 1)]

\* mutant: the result is a plain Device that keeps a None location
InterpolateAndTrim_plainDevice(device) ==
    [serial_number |-> device.serial_number,
     location |-> device.location,
     variant |-> "Device",
     history |-> TrimAndFill(SortByDate(device.history))]

\* a new device of the variant of the input, with its serial number, its
\* location ('' for None) and the cleaned history
InterpolateAndTrim(device) ==
    [serial_number |-> device.serial_number,
     location |-> IF device.location = NoLocation THEN "" ELSE device.location,
     variant |-> device.variant,
     history |-> TrimAndFill(SortByDate(device.history))]

(***************************************************************************)
(* SpecInterpolate: one call on a device whose readings have distinct      *)
(* timestamps 1..n, in any order, each value present or missing.           *)
(***************************************************************************)
InterpolateValues == {None, Num(0), Num(1), Num(2)}
\* every concrete variant, with and without a location
InterpolateIdentities ==
    {[variant |-> "Device", location |-> "Kitchen"],
     [variant |-> "HeatingDevice", location |-> NoLocation],
     [variant |-> "HotWaterDevice", location |-> NoLocation],
     [variant |-> "ColdWaterDevice", location |-> "Kitchen"]}

InputHistories(n) ==
    {[i \in 1..n |-> [date |-> d[i], reading |-> v[i]]] :
        d \in {f \in [1..n -> 1..n] : \A i, j \in 1..n : f[i] = f[j] => i = j},
        v \in [1..n -> InterpolateValues]}

InitInterpolate ==
    /\ idevice = <<>>
    /\ odevice = <<>>
    /\ DeviceIdle /\ ParserIdle /\ MergeIdle /\ HeadersIdle /\ ApiIdle

DoInterpolateAndTrim ==
    /\ idevice = <<>>
    /\ \E n \in 0..MaxLen : \E h \in InputHistories(n), x \in InterpolateIdentities :
          /\ idevice' = [serial_number |-> "A", location |-> x.location,
                         variant |-> x.variant, history |-> h]
          /\ odevice' = InterpolateAndTrim(idevice')
    /\ UNCHANGED <<dvars, pvars, mvars, hvars, avars>>

NextInterpolate == DoInterpolateAndTrim

SpecInterpolate == InitInterpolate /\ [][NextInterpolate]_vars

Interpolated == idevice # <<>>

\* the input value at a timestamp (input timestamps are distinct), the
\* timestamps with a present value, the output reading at a timestamp
InValue(d) ==
    idevice.history[CHOOSE i \in 1..Len(idevice.history) :
                        idevice.history[i].date = d].reading

PresentDates ==
    {idevice.history[i].date : i \in ValidAt(idevice.history)}

OutAt(d) ==
    odevice.history[CHOOSE j \in 1..Len(odevice.history) :
                        odevice.history[j].date = d]

\* the present timestamps that bound the run of a missing timestamp d
RunStart(d) == CHOOSE a \in PresentDates : a < d /\ \A p \in PresentDates : p < d => p <= a
RunEnd(d) == CHOOSE b \in PresentDates : b > d /\ \A p \in PresentDates : p > d => b <= p

\* the missing timestamps that lie between two present ones
InteriorMissing ==
    {idevice.history[i].date : i \in 1..Len(idevice.history)} \cap
    {d \in 1..MaxLen + 1 : /\ d \notin PresentDates
                           /\ \E a, b \in PresentDates : a < d /\ d < b}

\* C7: every leading and trailing run of missing readings is dropped: the
\* output holds no missing value and runs from the first to the last present
\* reading; no present value gives the empty history, exactly one present
\* value gives that one reading.
C7_TrimmedToValid ==
    Interpolated =>
        LET out == odevice.history
        IN /\ \A j \in 1..Len(out) : out[j].reading # None
           /\ PresentDates = {} => out = <<>>
           /\ PresentDates # {} =>
                 /\ Len(out) >= 1
                 /\ \A p \in PresentDates : out[1].date <= p /\ p <= out[Len(out)].date
                 /\ out[1].date \in PresentDates
                 /\ out[Len(out)].date \in PresentDates
           /\ \A d \in PresentDates :
                 PresentDates = {d} => out = <<[date |-> d, reading |-> InValue(d)]>>

\* missing readings come before and after the present ones, the input is out
\* of order, and the output is what lies between
C7_Witness ==
    /\ Interpolated
    /\ Len(idevice.history) = MaxLen
    /\ idevice.history[1].date > idevice.history[2].date
    /\ InValue(1) = None /\ InValue(MaxLen) = None
    /\ Cardinality(PresentDates) = 2
    /\ Len(odevice.history) = 2

C9_MeterReset ==
    Interpolated =>
        \A d \in InteriorMissing :
            LET a == RunStart(d)
                b == RunEnd(d)
                vs == InValue(a)
                ve == InValue(b)
            IN RatLT(ve, vs) =>
                  /\ OutAt(d).reading = Num(0)
                  /\ OutAt(a).reading = vs
                  /\ OutAt(b).reading = ve

\* 2, missing, missing, 1 is filled with 0 and 0
C9_Witness ==
    /\ Interpolated
    /\ Len(idevice.history) = 4
    /\ InValue(1) = Num(2) /\ InValue(2) = None /\ InValue(3) = None /\ InValue(4) = Num(1)
    /\ OutAt(1).reading = Num(2)
    /\ OutAt(2).reading = Num(0)
    /\ OutAt(3).reading = Num(0)
    /\ OutAt(4).reading = Num(1)

\* a history without a missing value, sorted by timestamp
IsClean(h) == ValidAt(h) = 1..Len(h) /\ IsSortedByDate(h)

\* C19: interpolate-and-trim is idempotent on clean input: a history that is
\* sorted and has no missing value comes back with the same readings in the
\* same order, and so a second application to any result changes nothing.
C19_IdempotentOnClean ==
    Interpolated =>
        /\ IsClean(idevice.history) => odevice.history = idevice.history
        /\ IsClean(odevice.history)
        /\ InterpolateAndTrim(odevice).history = odevice.history

\* three present readings in time order, the last one lower than the one
\* before it, came back unchanged
C19_Witness ==
    /\ Interpolated
    /\ idevice.history = <<[date |-> 1, reading |-> Num(1)],
                           [date |-> 2, reading |-> Num(2)],
                           [date |-> 3, reading |-> Num(0)]>>
    /\ odevice.history = idevice.history

\* C20: the device returned has the serial number and the concrete variant of
\* its input and the same location, '' standing for a None location; only the
\* history differs.
C20_IdentityKept ==
    Interpolated =>
        /\ odevice.serial_number = idevice.serial_number
        /\ odevice.variant = idevice.variant
        /\ odevice.location = (IF idevice.location = NoLocation THEN ""
                                ELSE idevice.location)
        /\ DOMAIN odevice = DOMAIN idevice

\* a HotWaterDevice without location came back as a HotWaterDevice at '' with
\* another history
C20_Witness ==
    /\ Interpolated
    /\ idevice.variant = "HotWaterDevice" /\ idevice.location = NoLocation
    /\ odevice.variant = "HotWaterDevice" /\ odevice.location = ""
    /\ odevice.serial_number = "A"
    /\ Len(idevice.history) = 3
    /\ odevice.history # idevice.history

(***************************************************************************)
(* excel_parser.py: _normalize_headers                                     *)
(*                                                                         *)
(* A header is the tuple of its characters, over letters in both cases,    *)
(* the space, the tab, the ordinal marker and the underscore.              *)
(***************************************************************************)
MaxHeader == 3      \* characters of a raw header

HeaderChars == {"a", "A", " ", "\t", "º", "_"}

\* str.isspace of one character
IsSpace(c) == c \in {" ", "\t"}

\* str.strip(): leading and trailing whitespace goes
RECURSIVE LStrip(_)
LStrip(t) == IF Len(t) > 0 /\ IsSpace(t[1]) THEN LStrip(Tail(t)) ELSE t

RECURSIVE RStrip(_)
RStrip(t) ==
    IF Len(t) > 0 /\ IsSpace(t[Len(t)]) THEN RStrip(SubSeq(t, 1, Len(t) - 1)) ELSE t

Strip(t) == RStrip(LStrip(t))

\* str.lower()
Lower(t) == [i \in 1..Len(t) |-> IF t[i] = "A" THEN "a" ELSE t[i]]

\* str.replace(c, "")
RECURSIVE Remove(_, _)
Remove(t, c) ==
    IF Len(t) = 0 THEN t
    ELSE IF t[1] = c THEN Remove(Tail(t), c)
    ELSE <<t[1]>> \o Remove(Tail(t), c)

\* str.replace(c, d) for single characters
ReplaceChar(t, c, d) == [i \in 1..Len(t) |-> IF t[i] = c THEN d ELSE t[i]]

\* line 119: header.strip().lower().replace("º", "").replace(" ", "_")
NormalizeHeader(header) == ReplaceChar(Remove(Lower(Strip(header)), "º"), " ", "_")

\* _normalize_headers
NormalizeHeaders(hs) == [i \in 1..Len(hs) |-> NormalizeHeader(hs[i])]

RawHeaders(n) == [1..n -> HeaderChars]

InitHeaders ==
    /\ raw_headers = <<>>
    /\ norm_headers = <<>>
    /\ DeviceIdle /\ ParserIdle /\ MergeIdle /\ InterpolateIdle /\ ApiIdle

\* headers = self._normalize_headers(sheet.row_values(0)), line 99, on a
\* header row of one cell
DoNormalizeHeaders ==
    /\ raw_headers = <<>>
    /\ \E n \in 0..MaxHeader : \E h \in RawHeaders(n) :
          /\ raw_headers' = <<h>>
          /\ norm_headers' = NormalizeHeaders(raw_headers')
    /\ UNCHANGED <<dvars, pvars, mvars, ivars, avars>>

NextHeaders == DoNormalizeHeaders

SpecHeaders == InitHeaders /\ [][NextHeaders]_vars

\* C18: header normalization is idempotent: normalizing the normalized headers
\* gives the same strings as normalizing once.
C18_NormalizeIdempotent ==
    NormalizeHeaders(norm_headers) = norm_headers

(***************************************************************************)
(* virtual_api.py: login, relogin, _get_readings_chunk                     *)
(*                                                                         *)
(* The portal is the environment: every request is answered by a response  *)
(* [ok, content_length, cookies, content_type] chosen by the portal; ok is *)
(* FALSE when _send_request raises RequestException (no connection, or an  *)
(* error status at raise_for_status).  A call returns [status, cookies,    *)
(* result, log]: how it ended, self.cookies when it ended, what it         *)
(* returned, and the requests it sent with the responses it got.           *)
(***************************************************************************)
MAX_DAYS_PER_REQUEST == 240
EXCEL_CONTENT_TYPE == "application/vnd.ms-excel;charset=iso-8859-1"

NoCookies == {}       \* the empty dict

Response(ok, content_length, jar, content_type) ==
    [ok |-> ok, content_length |-> content_length, cookies |-> jar,
     content_type |-> content_type]

\* _send_request raised RequestException
Failure == Response(FALSE, FALSE, NoCookies, "")

\* one request of the session and the response to it
Request(method, url, jar, metodo, desde, hasta, response) ==
    [method |-> method, url |-> url, cookies |-> jar,
     params |-> [metodo |-> metodo, desde |-> desde, hasta |-> hasta],
     response |-> response]

\* lines 150-158: the POST of the credentials
LoginRequest(post) ==
    Request("POST", "LOGIN_URL", NoCookies, "loginAbonado", NoDate, NoDate, post)

\* _preload_reading_metadata, sent with self.cookies as they are
PreloadRequest(jar, pre) ==
    Request("GET", "DATA_URL", jar, "preCargaLecturasRadio", NoDate, NoDate, pre)

\* lines 264-281: the GET of the readings of a window
DataRequest(jar, start, end, response) ==
    Request("GET", "DATA_URL", jar, "listadoLecturasRadio", start, end, response)

\* mutant: the cookies of the response are stored before it is examined
Login_storeFirst(jar, post, pre) ==
    IF jar # NoCookies THEN [status |-> "ok", cookies |-> jar, log |-> <<>>]
    ELSE IF ~post.ok
    THEN [status |-> "LoginError", cookies |-> jar, log |-> <<LoginRequest(post)>>]
    ELSE IF ~pre.ok \/ post.content_length
    THEN [status |-> "LoginError", cookies |-> post.cookies,
          log |-> <<LoginRequest(post), PreloadRequest(post.cookies, pre)>>]
    ELSE [status |-> "ok", cookies |-> post.cookies,
          log |-> <<LoginRequest(post), PreloadRequest(post.cookies, pre)>>]

\* VirtualApi.login with self.cookies = jar, the portal answering the POST with
\* `post` and the preload GET with `pre`
Login(jar, post, pre) ==
    IF jar # NoCookies THEN [status |-> "ok", cookies |-> jar, log |-> <<>>]
    ELSE IF ~post.ok
    THEN [status |-> "LoginError", cookies |-> jar, log |-> <<LoginRequest(post)>>]
    ELSE IF ~pre.ok \/ post.content_length
    THEN [status |-> "LoginError", cookies |-> jar,
          log |-> <<LoginRequest(post), PreloadRequest(jar, pre)>>]
    ELSE [status |-> "ok", cookies |-> post.cookies,
          log |-> <<LoginRequest(post), PreloadRequest(jar, pre)>>]

\* mutant: the stored cookies are kept, so that login returns at once
Relogin_keepCookies(jar, post, pre) == Login(jar, post, pre)

\* VirtualApi.relogin: the cookies are cleared, then login
Relogin(jar, post, pre) == Login(NoCookies, post, pre)

\* io.BytesIO(response.content): the bytes of the n-th response of the call
Body(request, n) ==
    [content_type |-> request.response.content_type, params |-> request.params,
     response |-> n]

IsExcel(content_type) == content_type = EXCEL_CONTENT_TYPE
IsHtml(content_type) == content_type = "text/html"

\* VirtualApi._get_readings_chunk(start, end, max_days) with self.cookies =
\* jar; the portal answers the request with `first`, the login of a relogin
\* with `post` and `pre`, and the repeated request with `second`
GetReadingsChunk(jar, start, end, max_days, first, post, pre, second) ==
    IF end - start > max_days
    THEN [status |-> "ValueError", cookies |-> jar, result |-> None, log |-> <<>>]
    ELSE
      LET req1 == DataRequest(jar, start, end, first)
      IN IF ~first.ok
         THEN [status |-> "RequestException", cookies |-> jar, result |-> None,
               log |-> <<req1>>]
         ELSE IF IsExcel(first.content_type)
         THEN [status |-> "ok", cookies |-> jar, result |-> Body(req1, 1),
               log |-> <<req1>>]
         ELSE IF ~IsHtml(first.content_type)
         THEN [status |-> "RequestException", cookies |-> jar, result |-> None,
               log |-> <<req1>>]
         ELSE
           LET again == Relogin(jar, post, pre)
               req2 == DataRequest(again.cookies, start, end, second)
           IN IF again.status # "ok"
              THEN [status |-> again.status, cookies |-> again.cookies,
                    result |-> None, log |-> <<req1>> \o again.log]
              ELSE IF ~second.ok
              THEN [status |-> "RequestException", cookies |-> again.cookies,
                    result |-> None, log |-> <<req1>> \o again.log \o <<req2>>]
              ELSE [status |-> "ok", cookies |-> again.cookies,
                    result |-> Body(req2, 2),
                    log |-> <<req1>> \o again.log \o <<req2>>]

(***************************************************************************)
(* SpecSession: one VirtualApi and its login, relogin and                  *)
(* _get_readings_chunk calls, against a portal that answers as it likes.   *)
(***************************************************************************)
CookieJars == {NoCookies, {"old"}, {"new"}}
ContentTypes == {EXCEL_CONTENT_TYPE, "text/html", "application/json"}

PostResponses ==
    {Failure} \cup {Response(TRUE, cl, jar, "text/html") :
                      cl \in BOOLEAN, jar \in CookieJars}
PreResponses == {Failure, Response(TRUE, TRUE, NoCookies, "text/html")}
DataResponses ==
    {Failure} \cup {Response(TRUE, TRUE, NoCookies, t) : t \in ContentTypes}

\* windows of a direct _get_readings_chunk call: 30 days, the longest window
\* the range check lets through, and one day more
ChunkWindows ==
    {[start |-> 0, end |-> d] : d \in {30, MAX_DAYS_PER_REQUEST, MAX_DAYS_PER_REQUEST + 1}}

InitSession ==
    /\ cookies = NoCookies
    /\ api_call = [op |-> "none", cookies_before |-> NoCookies, status |-> "ok",
                   result |-> None, log |-> <<>>]
    /\ today = <<>> /\ fetch = <<>>
    /\ DeviceIdle /\ ParserIdle /\ MergeIdle /\ InterpolateIdle /\ HeadersIdle

\* the call `op` ended as `res` says
Called(op, res) ==
    /\ cookies' = res.cookies
    /\ api_call' = [op |-> op, cookies_before |-> cookies, status |-> res.status,
                    result |-> res.result, log |-> res.log]

DoLogin ==
    /\ \E post \in PostResponses, pre \in PreResponses :
          LET res == Login(cookies, post, pre)
          IN Called("login", [status |-> res.status, cookies |-> res.cookies,
                              result |-> None, log |-> res.log])
    /\ UNCHANGED <<today, fetch>>
    /\ UNCHANGED <<dvars, pvars, mvars, ivars, hvars>>

DoRelogin ==
    /\ \E post \in PostResponses, pre \in PreResponses :
          LET res == Relogin(cookies, post, pre)
          IN Called("relogin", [status |-> res.status, cookies |-> res.cookies,
                                result |-> None, log |-> res.log])
    /\ UNCHANGED <<today, fetch>>
    /\ UNCHANGED <<dvars, pvars, mvars, ivars, hvars>>

DoGetReadingsChunk ==
    /\ \E w \in ChunkWindows, first \in DataResponses, post \in PostResponses,
          pre \in PreResponses, second \in DataResponses :
          Called("chunk", GetReadingsChunk(cookies, w.start, w.end,
                                           MAX_DAYS_PER_REQUEST,
                                           first, post, pre, second))
    /\ UNCHANGED <<today, fetch>>
    /\ UNCHANGED <<dvars, pvars, mvars, ivars, hvars>>

NextSession == DoLogin \/ DoRelogin \/ DoGetReadingsChunk

SpecSession == InitSession /\ [][NextSession]_vars

\* the requests of the last call that went to the login URL, and the ones
\* that asked for readings
LoginPosts == {i \in 1..Len(api_call.log) : api_call.log[i].url = "LOGIN_URL"}
DataGets ==
    {i \in 1..Len(api_call.log) :
        api_call.log[i].params.metodo = "listadoLecturasRadio"}

\* the last call was login() started with no stored cookies
FreshLogin == api_call.op = "login" /\ api_call.cookies_before = NoCookies

\* a request of the login failed, or the portal rejected the credentials
LoginRefused ==
    \/ \E i \in 1..Len(api_call.log) : ~api_call.log[i].response.ok
    \/ api_call.log[1].response.content_length

ExpiredAndReturned ==
    /\ api_call.op = "chunk"
    /\ api_call.status = "ok"
    /\ Len(api_call.log) >= 1
    /\ api_call.log[1].response.ok
    /\ IsHtml(api_call.log[1].response.content_type)

\* C24: session expiry: when the readings request is answered with an HTML
\* page, _get_readings_chunk discards the stored cookies, logs in again
\* exactly once, repeats the same request exactly once with the new cookies
\* and returns the bytes of that second response; when it returns, the stored
\* cookies are those obtained by the new login.
C24_ReloginOnce ==
    ExpiredAndReturned =>
        /\ Len(api_call.log) = 4
        /\ LoginPosts = {2}
        /\ DataGets = {1, 4}
        /\ api_call.log[1].cookies = api_call.cookies_before
        /\ api_call.log[3].cookies = NoCookies
        /\ api_call.log[4].cookies = api_call.log[2].response.cookies
        /\ api_call.log[4].params = api_call.log[1].params
        /\ api_call.result = Body(api_call.log[4], 2)
        /\ cookies = api_call.log[2].response.cookies

\* the session with cookies "old" had expired; the relogin got the cookies
\* "new" and the repeated request the spreadsheet
C24_Witness ==
    /\ ExpiredAndReturned
    /\ api_call.cookies_before = {"old"}
    /\ cookies = {"new"}
    /\ IsExcel(api_call.result.content_type)

\* C27: every buffer returned by _get_readings_chunk is the body of a
\* response whose Content-Type is the spreadsheet type, also when the session
\* is still expired after the relogin.
C27_OnlySpreadsheets ==
    (api_call.op = "chunk" /\ api_call.status = "ok") =>
        IsExcel(api_call.result.content_type)

(***************************************************************************)
(* virtual_api.py: _get_readings; pycalista_ista.py: get_devices_history   *)
(*                                                                         *)
(* A date is the number of days since 1 January of EpochYear, so that      *)
(* adding timedelta(days=n) is adding n.  fetch = [status, start, end,     *)
(* max_days, defaults, called_on, current_start, file_buffers, attempts]:  *)
(* attempts lists the _get_readings_chunk calls made so far, each with its *)
(* window and how it ended.                                                *)
(***************************************************************************)
MaxChunks == 3     \* windows of one _get_readings call
MaxUptime == 1     \* days the process runs after the import
EpochYear == 2024
ImportDay == 380   \* the day the modules were imported: 15 January 2025
DefaultDays == 30

DaysInYear(y) == IF IsLeap(y) THEN 366 ELSE 365

\* date.year
RECURSIVE YearFrom(_, _)
YearFrom(y, n) == IF n < DaysInYear(y) THEN y ELSE YearFrom(y + 1, n - DaysInYear(y))
YearOfDay(n) == YearFrom(EpochYear, n)

Min(a, b) == IF a < b THEN a ELSE b

\* mutant: the window is not cut at the end of the period
CurrentEnd_noClamp(current_start, max_days, end) == current_start + max_days

\* line 324
CurrentEnd(current_start, max_days, end) == Min(current_start + max_days, end)

\* the default arguments `date.today() - timedelta(days=30)` and
\* `date.today()`: Python evaluates them once, when the def statement runs
DefaultStart == ImportDay - DefaultDays
DefaultEnd == ImportDay

\* lines 320-321
GetReadingsStart(start, end, max_days, defaults, now) ==
    [status |-> "running", start |-> start, end |-> end, max_days |-> max_days,
     defaults |-> defaults, called_on |-> now, current_start |-> start,
     file_buffers |-> <<>>, attempts |-> <<>>]

\* lines 323-338, one iteration: f is the call, res what
\* _get_readings_chunk(current_start, current_end) did
GetReadingsIteration(f, res) ==
    LET current_end == CurrentEnd(f.current_start, f.max_days, f.end)
        attempt == [start |-> f.current_start, end |-> current_end,
                    status |-> res.status]
    IN IF res.status = "ok"
       THEN [f EXCEPT !.file_buffers = Append(@, <<YearOfDay(current_end), res.result>>),
                      !.attempts = Append(@, attempt),
                      !.current_start = current_end]
       ELSE [f EXCEPT !.status = res.status,
                      !.file_buffers = <<>>,
                      !.attempts = Append(@, attempt)]

(***************************************************************************)
(* SpecFetch: _get_readings calls on one VirtualApi, with explicit         *)
(* arguments or with the defaults, while days pass.                        *)
(***************************************************************************)
\* ceil(span / max_days)
Chunks(span, max_days) == (span + max_days - 1) \div max_days

FetchStarts == {200, 364}
FetchSpans == {0, 1, 2, 3, 4, MAX_DAYS_PER_REQUEST, MAX_DAYS_PER_REQUEST + 1,
               2 * MAX_DAYS_PER_REQUEST + 1}
FetchMaxDays == {1, 2, 3, MAX_DAYS_PER_REQUEST, MAX_DAYS_PER_REQUEST + 1}

\* the portal of SpecFetch hands out one cookie jar
FetchPostResponses == {r \in PostResponses : r.ok => r.cookies = {"new"}}

InitFetch ==
    /\ cookies \in {NoCookies, {"old"}}
    /\ api_call = <<>>
    /\ today = ImportDay
    /\ fetch = [status |-> "idle", start |-> 0, end |-> 0, max_days |-> 0,
                defaults |-> FALSE, called_on |-> 0, current_start |-> 0,
                file_buffers |-> <<>>, attempts |-> <<>>]
    /\ DeviceIdle /\ ParserIdle /\ MergeIdle /\ InterpolateIdle /\ HeadersIdle

\* _get_readings(start, end, max_days) is called
GetReadingsCall ==
    /\ fetch.status # "running"
    /\ \E start \in FetchStarts, span \in FetchSpans, max_days \in FetchMaxDays :
          /\ Chunks(span, max_days) <= MaxChunks
          /\ fetch' = GetReadingsStart(start, start + span, max_days, FALSE, today)
    /\ UNCHANGED <<cookies, api_call, today>>
    /\ UNCHANGED <<dvars, pvars, mvars, ivars, hvars>>

\* PyCalistaIsta.get_devices_history() without arguments: the defaults go to
\* VirtualApi.get_devices_history and from there to _get_readings
GetReadingsCallDefaults ==
    /\ fetch.status # "running"
    /\ fetch' = GetReadingsStart(DefaultStart, DefaultEnd, MAX_DAYS_PER_REQUEST,
                                 TRUE, today)
    /\ UNCHANGED <<cookies, api_call, today>>
    /\ UNCHANGED <<dvars, pvars, mvars, ivars, hvars>>

\* one iteration of the while loop; line 327 passes no max_days, so that
\* _get_readings_chunk checks the window against its own default
GetReadingsStep ==
    /\ fetch.status = "running"
    /\ fetch.current_start < fetch.end
    /\ \E first \in DataResponses, post \in FetchPostResponses,
          pre \in PreResponses, second \in DataResponses :
          LET res == GetReadingsChunk(cookies, fetch.current_start,
                                      CurrentEnd(fetch.current_start, fetch.max_days,
                                                 fetch.end),
                                      MAX_DAYS_PER_REQUEST, first, post, pre, second)
          IN /\ fetch' = GetReadingsIteration(fetch, res)
             /\ cookies' = res.cookies
    /\ UNCHANGED <<api_call, today>>
    /\ UNCHANGED <<dvars, pvars, mvars, ivars, hvars>>

\* lines 323 and 340: the loop ends and the list is returned
GetReadingsReturn ==
    /\ fetch.status = "running"
    /\ ~(fetch.current_start < fetch.end)
    /\ fetch' = [fetch EXCEPT !.status = "returned"]
    /\ UNCHANGED <<cookies, api_call, today>>
    /\ UNCHANGED <<dvars, pvars, mvars, ivars, hvars>>

\* midnight
Tick ==
    /\ fetch.status # "running"
    /\ today < ImportDay + MaxUptime
    /\ today' = today + 1
    /\ UNCHANGED <<cookies, api_call, fetch>>
    /\ UNCHANGED <<dvars, pvars, mvars, ivars, hvars>>

NextFetch ==
    \/ GetReadingsCall
    \/ GetReadingsCallDefaults
    \/ GetReadingsStep
    \/ GetReadingsReturn
    \/ Tick

SpecFetch == InitFetch /\ [][NextFetch]_vars

Fetching == fetch # <<>> /\ fetch.status # "idle"

\* the window of the i-th returned buffer, as the request for it named it
BufferWindow(i) ==
    [start |-> fetch.file_buffers[i][2].params.desde,
     end |-> fetch.file_buffers[i][2].params.hasta]

\* C23: for start < end and max_days >= 1, _get_readings asks for its windows
\* in chronological order: the first starts at start, every next one starts
\* on the date where the previous one ended, none is longer than max_days
\* days, and when the call returns the last one ends at end and every buffer
\* is paired, in the same order, with the year of the end date of its window.
C23_WindowsInOrder ==
    (Fetching /\ fetch.start < fetch.end /\ fetch.max_days >= 1) =>
        /\ \A i \in 1..Len(fetch.attempts) :
              /\ fetch.attempts[i].start =
                    (IF i = 1 THEN fetch.start ELSE fetch.attempts[i - 1].end)
              /\ fetch.attempts[i].start < fetch.attempts[i].end
              /\ fetch.attempts[i].end - fetch.attempts[i].start <= fetch.max_days
              /\ fetch.attempts[i].end <= fetch.end
        /\ fetch.status = "returned" =>
              /\ Len(fetch.attempts) >= 1
              /\ fetch.attempts[Len(fetch.attempts)].end = fetch.end
              /\ Len(fetch.file_buffers) = Len(fetch.attempts)
              /\ \A i \in 1..Len(fetch.file_buffers) :
                    /\ BufferWindow(i) = [start |-> fetch.attempts[i].start,
                                          end |-> fetch.attempts[i].end]
                    /\ fetch.file_buffers[i][1] = YearOfDay(fetch.attempts[i].end)

\* a call returned MaxChunks buffers whose windows end in two calendar years,
\* the last window shorter than max_days
C23_Witness ==
    /\ Fetching /\ fetch.status = "returned"
    /\ Len(fetch.file_buffers) = MaxChunks
    /\ fetch.file_buffers[1][1] # fetch.file_buffers[MaxChunks][1]
    /\ fetch.attempts[MaxChunks].end - fetch.attempts[MaxChunks].start < fetch.max_days

\* C29: get_devices_history called without arguments asks for the period from
\* 30 days before the day of the call up to the day of the call, at every
\* call and however long the process has been running.
C29_DefaultsFollowToday ==
    (Fetching /\ fetch.defaults) =>
        /\ fetch.start = fetch.called_on - DefaultDays
        /\ fetch.end = fetch.called_on

\* C30: for start <= end and max_days >= 1 the chunking loop terminates: each
\* iteration strictly advances the window start, exactly
\* ceil((end - start) / max_days) chunk requests are attempted when all
\* succeed (none when start = end, the result then being an empty list), none
\* of them is rejected by the range check of _get_readings_chunk, and the
\* first failing request ends the fetch with that error and no partial list.
C30_ChunkingTerminates ==
    (Fetching /\ fetch.start <= fetch.end /\ fetch.max_days >= 1) =>
        /\ \A i \in 1..Len(fetch.attempts) :
              /\ fetch.attempts[i].start < fetch.attempts[i].end
              /\ fetch.attempts[i].status # "ValueError"
              /\ fetch.attempts[i].status # "ok" =>
                    /\ i = Len(fetch.attempts)
                    /\ fetch.status = fetch.attempts[i].status
                    /\ fetch.file_buffers = <<>>
        /\ Len(fetch.attempts) <= Chunks(fetch.end - fetch.start, fetch.max_days)
        /\ fetch.status = "returned" =>
              /\ Len(fetch.attempts) = Chunks(fetch.end - fetch.start, fetch.max_days)
              /\ Len(fetch.file_buffers) = Len(fetch.attempts)

====
